---- MODULE Spec2Model ----
(***************************************************************************)
(* Model of integration_limbo: the DigitalOcean -> NetBox synchronisation  *)
(* (run_sync in integrations/netbox_to_digitalocean/main.py) with its two  *)
(* diffsync adapters.  The diffsync library calls made by the code         *)
(* (Adapter.add/get, DiffSyncModel.add_child, diff_from, sync_from) are    *)
(* modelled by what diffsync 2.0 does for the class attributes the         *)
(* repository declares (top_level, _identifiers, _attributes, _children).  *)
(***************************************************************************)
EXTENDS Naturals, Sequences, FiniteSets, TLC

VARIABLES
    pc,               \* position of run_sync
    exitStatus,       \* process exit status, meaningful once pc is "exit" or "crash"
    dry_run,          \* args.dry_run (TRUE) or args.sync (FALSE)
    branch,           \* args.branch
    force,            \* args.force
    nbBranch,         \* status of the branch named args.branch at NetBox
    branchCreated,    \* a branch was created at NetBox by this run
    elapsed_time,     \* wait_for_branch_ready's counter
    branch_schema_id, \* the value NetBoxAdapter.__init__ received
    nb,               \* NetBox backend: type -> sequence of backend objects
    nextId,           \* next id the NetBox backend assigns
    droplets,         \* what GET /droplets of the DigitalOcean API returns
    srcFetchFailed,   \* the DigitalOcean fetch raised during load()
    local_netbox,     \* destination adapter's store: type -> sequence of models
    digital_ocean,    \* source adapter's store
    diff,             \* the last diff computed (sequence of diff elements)
    diffComputed,     \* diff_from/sync_from has computed a diff
    todo,             \* diff elements of the current phase not yet processed
    report,           \* one entry per create/update/delete attempted
    faults            \* backend faults met so far in this run

vars == <<pc, exitStatus, dry_run, branch, force, nbBranch, branchCreated,
          elapsed_time, branch_schema_id, nb, nextId, droplets, srcFetchFailed,
          local_netbox, digital_ocean, diff, diffComputed, todo, report, faults>>

-----------------------------------------------------------------------------
(* Bounds of the model *)

\* longest droplet list the DigitalOcean API returns
MaxDroplets == 3

\* most backend faults (exception, object vanished) injected in one run
MaxFaults == 1

\* most CRUD calls made in one sequence of direct calls
MaxCalls == 3

(* Program constants *)

\* wait_for_branch_ready(branch, netbox_api, timeout=30)
Timeout == 30

-----------------------------------------------------------------------------
(* Entity types and model classes (models.py) *)

\* NetBoxAdapter.top_level / DigitalOceanAdapter.top_level
top_level == <<"site", "manufacturer", "device_role">>

\* the model classes both adapters declare
AllTypes == {"manufacturer", "device_type", "device_role", "site", "device"}

\* _attributes of each model class (a set: diffsync dumps include=set(_attributes))
Attributes(t) ==
    CASE t = "manufacturer" -> {"description", "slug"}
      [] t = "device_type"  -> {"manufacturer_name", "slug"}
      [] t = "device_role"  -> {"slug"}
      [] t = "site"         -> {"slug"}
      [] t = "device"       -> {"device_type_name", "device_role_name", "site_name", "status"}

\* _children of each model class: none of the five classes declares any
Children(t) == {}

\* DiffSyncModel.add_child raises ObjectStoreWrongType when the child's type
\* is not in the parent's _children
AddChildRaises(parentType, childType) == childType \notin Children(parentType)

\* a model instance: natural key, attributes, backend id (0 is None)
Model(key, attrs, id) == [key |-> key, attrs |-> attrs, id |-> id]

EmptyStore == [t \in AllTypes |-> <<>>]

-----------------------------------------------------------------------------
(* Adapter store (diffsync Adapter.get / Adapter.add) *)

RECURSIVE IndexOf(_, _, _)
IndexOf(seq, key, i) ==
    IF i > Len(seq) THEN 0
    ELSE IF seq[i].key = key THEN i ELSE IndexOf(seq, key, i + 1)

\* Adapter.get: position of the model with that key, 0 when ObjectNotFound
Get(store, t, key) == IndexOf(store[t], key, 1)

Has(store, t, key) == Get(store, t, key) # 0

\* Adapter.add: ObjectAlreadyExists when another object has the key
AddRaises(store, t, obj) == Has(store, t, obj.key)

Add(store, t, obj) ==
    IF AddRaises(store, t, obj) THEN store
    ELSE [store EXCEPT ![t] = Append(@, obj)]

Keys(seq) == {seq[i].key : i \in 1..Len(seq)}

-----------------------------------------------------------------------------
(* DigitalOceanAdapter.load (digital_ocean_adapter.py) *)

\* load_manufacturers that registers nothing
load_manufacturers_skipped(store) == store

\* load_manufacturers: the one fixed manufacturer
DigitalOceanManufacturer ==
    Model("DigitalOcean", [description |-> "Cloud provider", slug |-> "digitalocean"], 0)

load_manufacturers(store) == Add(store, "manufacturer", DigitalOceanManufacturer)

\* load_device_roles: the one fixed role
DropletRole == Model("Droplet", [slug |-> "droplet"], 0)

load_device_roles(store) == Add(store, "device_role", DropletRole)

\* lines 150-169: the device is added, then the child relationships are set;
\* an exception at any point ends this droplet (except Exception: continue)
DropletDevice(st, d) ==
    LET dev == Model(d.name,
                     [device_type_name |-> d.size_slug, device_role_name |-> "Droplet",
                      site_name |-> d.region.name, status |-> "active"], 0)
    IN  IF AddRaises(st.store, "device", dev) THEN st
        ELSE [st EXCEPT !.store = Add(st.store, "device", dev)]

\* lines 130-147: reuse the cached or stored site of the region, or add it
DropletSite(st, d) ==
    LET name == d.region.name
    IN  IF name \in st.created_sites \/ Has(st.store, "site", name)
        THEN DropletDevice(st, d)
        ELSE DropletDevice(
                 [store |-> Add(st.store, "site", Model(name, [slug |-> d.region.slug], 0)),
                  created_sites |-> st.created_sites \cup {name}], d)

\* lines 106-128: reuse the device type of the size, or add it and make it a
\* child of the manufacturer, which raises when the class declares no such child
DropletDeviceType(st, d) ==
    IF Has(st.store, "device_type", d.size_slug)
    THEN DropletSite(st, d)
    ELSE LET dt == Model(d.size_slug,
                         [manufacturer_name |-> "DigitalOcean", slug |-> d.size_slug], 0)
             st1 == [st EXCEPT !.store = Add(st.store, "device_type", dt)]
         IN  IF ~Has(st1.store, "manufacturer", "DigitalOcean")
                \/ AddChildRaises("manufacturer", "device_type")
             THEN st1
             ELSE DropletSite(st1, d)

RECURSIVE ProcessDroplets(_, _, _)
ProcessDroplets(st, ds, i) ==
    IF i > Len(ds) THEN st
    ELSE ProcessDroplets(DropletDeviceType(st, ds[i]), ds, i + 1)

\* load_devices: a failed fetch is logged and the method returns normally
load_devices(store, ds, fetchOk) ==
    IF fetchOk
    THEN ProcessDroplets([store |-> store, created_sites |-> {}], ds, 1).store
    ELSE store

\* DigitalOceanAdapter.load
DigitalOceanLoad(ds, fetchOk) ==
    load_devices(load_device_roles(load_manufacturers(EmptyStore)), ds, fetchOk)

\* self.add(device_model) of some droplet raised ObjectAlreadyExists (line 157):
\* the droplet reached that line, and an earlier droplet had added a device of
\* its name; the except clause of lines 171-174 logs it and goes on
DuplicateMet(ds) ==
    \E i \in 1..Len(ds) :
        LET before == ProcessDroplets(
                          [store |-> load_device_roles(load_manufacturers(EmptyStore)),
                           created_sites |-> {}], SubSeq(ds, 1, i - 1), 1).store
        IN  /\ Has(before, "device_type", ds[i].size_slug)
            /\ Has(before, "device", ds[i].name)

-----------------------------------------------------------------------------
(* NetBoxAdapter.load (netbox_adapter.py) *)

\* the model a load_* method builds from one backend object: the declared
\* attributes and the backend id
FromBackend(t, o) == Model(o.key, [a \in Attributes(t) |-> o.attrs[a]], o.id)

\* load_sites, load_manufacturers, load_device_roles: add every backend object
RECURSIVE LoadPlain(_, _, _, _)
LoadPlain(store, t, objs, i) ==
    IF i > Len(objs) THEN store
    ELSE LoadPlain(Add(store, t, FromBackend(t, objs[i])), t, objs, i + 1)

\* the types whose models load_device_types / load_devices call add_child on
ParentsOf(t) ==
    CASE t = "device_type" -> {"manufacturer"}
      [] t = "device"      -> {"device_type", "device_role", "site"}
      [] OTHER             -> {}

\* load_device_types, load_devices: add every backend object and make it a child
\* of the objects it references; the exception of add_child is not caught
RECURSIVE LoadWithParents(_, _, _, _)
LoadWithParents(st, t, objs, i) ==
    IF i > Len(objs) \/ st.raised THEN st
    ELSE LET s1 == Add(st.store, t, FromBackend(t, objs[i]))
         IN  IF \E p \in ParentsOf(t) : AddChildRaises(p, t)
             THEN [store |-> s1, raised |-> TRUE]
             ELSE LoadWithParents([store |-> s1, raised |-> FALSE], t, objs, i + 1)

\* NetBoxAdapter.load: sites, manufacturers, device roles, device types, devices
NetBoxLoad(backend) ==
    LET s1 == LoadPlain(EmptyStore, "site", backend["site"], 1)
        s2 == LoadPlain(s1, "manufacturer", backend["manufacturer"], 1)
        s3 == LoadPlain(s2, "device_role", backend["device_role"], 1)
        s4 == LoadWithParents([store |-> s3, raised |-> FALSE],
                              "device_type", backend["device_type"], 1)
    IN  LoadWithParents(s4, "device", backend["device"], 1)

-----------------------------------------------------------------------------
(* diffsync diff: Adapter.diff_from as called at main.py:106, 117 and 121 *)

\* source_attrs / dest_attrs of a diff element that has no such side (None)
NoAttrs == [none |-> "none"]

\* Action without the comparison of the two sides' attributes
ActionNoCompare(e) ==
    IF e.source_attrs # NoAttrs /\ e.dest_attrs = NoAttrs THEN "create"
    ELSE IF e.source_attrs = NoAttrs /\ e.dest_attrs # NoAttrs THEN "delete"
    ELSE IF e.source_attrs # NoAttrs /\ e.dest_attrs # NoAttrs THEN "update"
    ELSE "none"

\* DiffElement.action
Action(e) ==
    IF e.source_attrs # NoAttrs /\ e.dest_attrs = NoAttrs THEN "create"
    ELSE IF e.source_attrs = NoAttrs /\ e.dest_attrs # NoAttrs THEN "delete"
    ELSE IF e.source_attrs # NoAttrs /\ e.dest_attrs # NoAttrs
            /\ e.source_attrs # e.dest_attrs THEN "update"
    ELSE "none"

\* get_attrs_diffs()["+"] that carries every source attribute of an update
PlusAttrsAll(e) == e.source_attrs

\* DiffElement.get_attrs_diffs()["+"]: every source attribute of a create, the
\* attributes whose values differ of an update
PlusAttrs(e) ==
    IF e.dest_attrs = NoAttrs THEN e.source_attrs
    ELSE LET changed == {a \in DOMAIN e.source_attrs : e.source_attrs[a] # e.dest_attrs[a]}
         IN  [a \in changed |-> e.source_attrs[a]]

\* DiffElement.get_attrs_diffs()["-"]: the destination's values of the
\* attributes whose values differ
MinusAttrs(e) ==
    IF e.source_attrs = NoAttrs THEN e.dest_attrs
    ELSE LET changed == {a \in DOMAIN e.source_attrs : e.source_attrs[a] # e.dest_attrs[a]}
         IN  [a \in changed |-> e.dest_attrs[a]]

\* diff_object_pair that does not look at DiffSyncFlags.SKIP_UNMATCHED_DST
diff_object_pair_any_flags(t, key, src, dst, skipUnmatchedDst) ==
    << [type |-> t, key |-> key,
        source_attrs |-> IF Has(src, t, key) THEN src[t][Get(src, t, key)].attrs
                         ELSE NoAttrs,
        dest_attrs   |-> IF Has(dst, t, key) THEN dst[t][Get(dst, t, key)].attrs
                         ELSE NoAttrs] >>

\* diff_object_pair: no element for a destination-only object under
\* DiffSyncFlags.SKIP_UNMATCHED_DST, else the element of the pair
diff_object_pair(t, key, src, dst, skipUnmatchedDst) ==
    IF skipUnmatchedDst /\ ~Has(src, t, key) THEN <<>>
    ELSE << [type |-> t, key |-> key,
             source_attrs |-> IF Has(src, t, key) THEN src[t][Get(src, t, key)].attrs
                              ELSE NoAttrs,
             dest_attrs   |-> IF Has(dst, t, key) THEN dst[t][Get(dst, t, key)].attrs
                              ELSE NoAttrs] >>

\* combined_dict of diff_object_list: the source's keys in store order, then the
\* keys only the destination has, in store order
CombinedKeys(t, src, dst) ==
    LET dstOnly == SelectSeq(dst[t], LAMBDA o : ~Has(src, t, o.key))
    IN  [i \in 1..Len(src[t]) |-> src[t][i].key] \o [i \in 1..Len(dstOnly) |-> dstOnly[i].key]

RECURSIVE diff_object_list(_, _, _, _, _, _)
diff_object_list(t, keys, i, src, dst, skipUnmatchedDst) ==
    IF i > Len(keys) THEN <<>>
    ELSE diff_object_pair(t, keys[i], src, dst, skipUnmatchedDst)
         \o diff_object_list(t, keys, i + 1, src, dst, skipUnmatchedDst)

\* calculate_diffs: the top-level types in order; a type that is not top-level
\* is reached only as a declared child of one, and no class declares children
RECURSIVE calculate_diffs(_, _, _, _)
calculate_diffs(i, src, dst, skipUnmatchedDst) ==
    IF i > Len(top_level) THEN <<>>
    ELSE diff_object_list(top_level[i], CombinedKeys(top_level[i], src, dst), 1,
                          src, dst, skipUnmatchedDst)
         \o calculate_diffs(i + 1, src, dst, skipUnmatchedDst)

\* dst.diff_from(src, flags)
diff_from(dst, src, skipUnmatchedDst) == calculate_diffs(1, src, dst, skipUnmatchedDst)

\* the elements perform_sync acts on: DiffElement.has_diffs()
WithDiffs(d) == SelectSeq(d, LAMBDA e : Action(e) # "none")

\* a deletion loop that goes over the DELETE elements a second time
DeletionsRetried(d) ==
    SelectSeq(d, LAMBDA e : Action(e) = "delete") \o SelectSeq(d, LAMBDA e : Action(e) = "delete")

\* the elements the deletion loop of run_sync acts on
Deletions(d) == SelectSeq(d, LAMBDA e : Action(e) = "delete")

-----------------------------------------------------------------------------
(* CRUD methods of the NetBox model classes (netbox_adapter.py) *)

\* the attribute of a model that names its object of type p
RefAttr(p) ==
    CASE p = "manufacturer" -> "manufacturer_name"
      [] p = "device_type"  -> "device_type_name"
      [] p = "device_role"  -> "device_role_name"
      [] p = "site"         -> "site_name"

\* a lookup of the referenced objects that never fails
UnresolvedIgnored(store, t, attrs) == FALSE

\* adapter.get of a referenced object finds nothing
Unresolved(store, t, attrs) ==
    \E p \in ParentsOf(t) : ~Has(store, p, attrs[RefAttr(p)])

\* the field of the posted data that carries the id of the object of type p
RefField(p) ==
    CASE p = "manufacturer" -> "manufacturer"
      [] p = "device_type"  -> "device_type"
      [] p = "device_role"  -> "role"
      [] p = "site"         -> "site"

\* the id of the model adapter.get returned (0 is None)
IdOf(store, p, key) == IF Has(store, p, key) THEN store[p][Get(store, p, key)].id ELSE 0

\* the data a create or update posts: the model's attributes, for a device
\* role the color, which no model attribute carries (attrs.get("color",
\* "ffffff")), and for every referenced object the id of its model in the store
PostData(store, t, attrs) ==
    IF t = "device_role" THEN [slug |-> attrs["slug"], color |-> "ffffff"]
    ELSE LET refs == {RefField(p) : p \in ParentsOf(t)}
             parent(f) == CHOOSE p \in ParentsOf(t) : RefField(p) = f
         IN  [f \in DOMAIN attrs \cup refs |->
                IF f \in DOMAIN attrs THEN attrs[f]
                ELSE IdOf(store, parent(f), attrs[RefAttr(parent(f))])]

\* position of the backend object with that id, 0 when get(id) returns None
RECURSIVE IndexOfId(_, _, _)
IndexOfId(objs, id, i) ==
    IF i > Len(objs) THEN 0
    ELSE IF objs[i].id = id THEN i ELSE IndexOfId(objs, id, i + 1)

RemoveId(objs, id) == SelectSeq(objs, LAMBDA o : o.id # id)

\* outcome of a CRUD method: the backend after it, the model it returns (or
\* returned |-> FALSE for None), whether it raised, the report entry
Result(backend, returned, model, raised, op, t, key, cause) ==
    [backend |-> backend, returned |-> returned, model |-> model, raised |-> raised,
     entry |-> [op |-> op, type |-> t, key |-> key,
                result |-> IF returned THEN "APPLIED" ELSE "FAILED", cause |-> cause]]

NoModel == Model("", NoAttrs, 0)

\* create whose try block does not catch the backend's exception
create_uncaught(backend, store, id, t, key, attrs, outcome) ==
    IF Unresolved(store, t, attrs)
    THEN Result(backend, FALSE, NoModel, t = "device_type", "create", t, key, "unresolved")
    ELSE IF outcome = "ok"
    THEN Result([backend EXCEPT ![t] = Append(@, [id |-> id, key |-> key,
                                                  attrs |-> PostData(store, t, attrs)])],
                TRUE, Model(key, attrs, id), FALSE, "create", t, key, "ok")
    ELSE Result(backend, FALSE, NoModel, TRUE, "create", t, key, "error")

\* create that does not store the backend's id in the model it returns
create_without_id(backend, store, id, t, key, attrs, outcome) ==
    IF Unresolved(store, t, attrs)
    THEN Result(backend, FALSE, NoModel, t = "device_type", "create", t, key, "unresolved")
    ELSE IF outcome = "ok"
    THEN Result([backend EXCEPT ![t] = Append(@, [id |-> id, key |-> key,
                                                  attrs |-> PostData(store, t, attrs)])],
                TRUE, Model(key, attrs, 0), FALSE, "create", t, key, "ok")
    ELSE Result(backend, FALSE, NoModel, FALSE, "create", t, key, "error")

\* <Type>NetBoxModel.create(adapter, ids, attrs).  A device type looks its
\* manufacturer up outside the try block, so ObjectNotFound leaves the method;
\* a device looks its references up inside it.
create(backend, store, id, t, key, attrs, outcome) ==
    IF Unresolved(store, t, attrs)
    THEN Result(backend, FALSE, NoModel, t = "device_type", "create", t, key, "unresolved")
    ELSE IF outcome = "ok"
    THEN Result([backend EXCEPT ![t] = Append(@, [id |-> id, key |-> key,
                                                  attrs |-> PostData(store, t, attrs)])],
                TRUE, Model(key, attrs, id), FALSE, "create", t, key, "ok")
    ELSE Result(backend, FALSE, NoModel, FALSE, "create", t, key, "error")

\* attrs.get(a, self.a) for every declared attribute
Merged(self, attrs) ==
    [a \in DOMAIN self.attrs |-> IF a \in DOMAIN attrs THEN attrs[a] ELSE self.attrs[a]]

\* <Type>NetBoxModel.update(self, attrs)
update(backend, store, t, self, attrs, outcome) ==
    LET i == IndexOfId(backend[t], self.id, 1)
    IN  IF outcome = "error"
        THEN Result(backend, FALSE, NoModel, FALSE, "update", t, self.key, "error")
        ELSE IF outcome = "notfound" \/ i = 0
        THEN Result([backend EXCEPT ![t] = RemoveId(@, self.id)],
                    FALSE, NoModel, FALSE, "update", t, self.key, "notfound")
        ELSE IF Unresolved(store, t, Merged(self, attrs))
        THEN Result(backend, FALSE, NoModel, FALSE, "update", t, self.key, "unresolved")
        ELSE Result([backend EXCEPT ![t][i].attrs = PostData(store, t, Merged(self, attrs))],
                    TRUE, [self EXCEPT !.attrs = Merged(self, attrs)], FALSE,
                    "update", t, self.key, "ok")

\* delete that returns the model whatever the backend answered
delete_unconfirmed(backend, t, self, outcome) ==
    LET i == IndexOfId(backend[t], self.id, 1)
    IN  IF outcome = "error"
        THEN Result(backend, TRUE, self, FALSE, "delete", t, self.key, "error")
        ELSE IF outcome = "notfound" \/ i = 0
        THEN Result([backend EXCEPT ![t] = RemoveId(@, self.id)],
                    TRUE, self, FALSE, "delete", t, self.key, "notfound")
        ELSE Result([backend EXCEPT ![t] = RemoveId(@, self.id)],
                    TRUE, self, FALSE, "delete", t, self.key, "ok")

\* <Type>NetBoxModel.delete(self): None unless the backend object was found and
\* its deletion answered; the model is returned as it is
delete(backend, t, self, outcome) ==
    LET i == IndexOfId(backend[t], self.id, 1)
    IN  IF outcome = "error"
        THEN Result(backend, FALSE, NoModel, FALSE, "delete", t, self.key, "error")
        ELSE IF outcome = "notfound" \/ i = 0
        THEN Result([backend EXCEPT ![t] = RemoveId(@, self.id)],
                    FALSE, NoModel, FALSE, "delete", t, self.key, "notfound")
        ELSE Result([backend EXCEPT ![t] = RemoveId(@, self.id)],
                    TRUE, self, FALSE, "delete", t, self.key, "ok")

-----------------------------------------------------------------------------
(* Initial states: the command line, the NetBox backend, the DigitalOcean API *)

B(id, key, attrs) == [id |-> id, key |-> key, attrs |-> attrs]

SiteChoices ==
    { <<>>,
      << B(1, "New York 1", [slug |-> "nyc1"]) >>,
      << B(1, "Amsterdam 3", [slug |-> "ams3"]), B(2, "New York 1", [slug |-> "ny1"]) >> }

ManufacturerChoices ==
    { <<>>,
      << B(1, "DigitalOcean", [description |-> "", slug |-> "digitalocean"]) >>,
      << B(1, "Acme", [description |-> "", slug |-> "acme"]),
         B(2, "DigitalOcean", [description |-> "Cloud provider", slug |-> "digitalocean"]) >> }

RoleChoices ==
    { <<>>,
      << B(1, "Droplet", [slug |-> "vm", color |-> "0000ff"]) >>,
      << B(1, "Droplet", [slug |-> "droplet", color |-> "0000ff"]) >>,
      << B(1, "Droplet", [slug |-> "droplet", color |-> "0000ff"]),
         B(2, "Router", [slug |-> "router", color |-> "ff0000"]) >> }

\* a backend device type needs its manufacturer, a backend device its device
\* type, role and site
BackendId(objs, key) == objs[IndexOf(objs, key, 1)].id

DeviceTypeChoices(ms) ==
    {<<>>} \cup
    IF "DigitalOcean" \in Keys(ms)
    THEN { << B(1, "s-1vcpu-1gb",
                [manufacturer_name |-> "DigitalOcean", slug |-> "s-1vcpu-1gb",
                 manufacturer |-> BackendId(ms, "DigitalOcean")]) >> }
    ELSE {}

DeviceChoices(ss, rs, dts) ==
    {<<>>} \cup
    IF dts # <<>> /\ "Droplet" \in Keys(rs) /\ "New York 1" \in Keys(ss)
    THEN { << B(1, "web0", [device_type_name |-> "s-1vcpu-1gb",
                            device_role_name |-> "Droplet",
                            site_name |-> "New York 1", status |-> "active",
                            device_type |-> BackendId(dts, "s-1vcpu-1gb"),
                            role |-> BackendId(rs, "Droplet"),
                            site |-> BackendId(ss, "New York 1")]) >> }
    ELSE {}

DropletPool ==
    { [name |-> n, size_slug |-> "s-1vcpu-1gb",
       region |-> [name |-> "New York 1", slug |-> "nyc1"]] : n \in {"web1", "web2"} }

DropletLists == UNION { [1..n -> DropletPool] : n \in 0..MaxDroplets }

Init ==
    /\ pc = "start"
    /\ exitStatus = 0
    /\ dry_run \in BOOLEAN
    /\ branch \in {"main", "feature"}
    /\ force \in BOOLEAN
    /\ nbBranch \in IF branch = "main" THEN {"absent"}
                    ELSE {"absent", "provisioning", "ready"}
    /\ branchCreated = FALSE
    /\ elapsed_time = 0
    /\ branch_schema_id = "None"
    /\ \E ss \in SiteChoices, ms \in ManufacturerChoices, rs \in RoleChoices :
         \E dts \in DeviceTypeChoices(ms) :
           \E ds \in DeviceChoices(ss, rs, dts) :
             nb = [t \in AllTypes |->
                     CASE t = "site" -> ss
                       [] t = "manufacturer" -> ms
                       [] t = "device_role" -> rs
                       [] t = "device_type" -> dts
                       [] t = "device" -> ds]
    /\ nextId = 3
    /\ droplets \in DropletLists
    /\ srcFetchFailed = FALSE
    /\ local_netbox = EmptyStore
    /\ digital_ocean = EmptyStore
    /\ diff = <<>>
    /\ diffComputed = FALSE
    /\ todo = <<>>
    /\ report = <<>>
    /\ faults = 0

-----------------------------------------------------------------------------
(* run_sync (main.py) *)

data == <<nb, nextId, droplets>>
args == <<dry_run, branch, force>>
stores == <<local_netbox, digital_ocean>>
progress == <<diff, diffComputed, todo, report, faults>>

\* sys.exit(status)
Exit(status) == pc' = "exit" /\ exitStatus' = status

\* an exception nothing catches: traceback, exit status 1
Crash == pc' = "crash" /\ exitStatus' = 1

\* lines 81-83: the main branch, no lookup, branch_schema_id = None
MainBranch ==
    /\ pc = "start" /\ branch = "main"
    /\ pc' = "load_dst"
    /\ UNCHANGED <<exitStatus, args, nbBranch, branchCreated, elapsed_time,
                   branch_schema_id, data, srcFetchFailed, stores, progress>>

\* get_or_create_branch that creates a missing branch whatever --force is
get_or_create_branch_forced ==
    /\ pc = "start" /\ branch # "main"
    /\ \E requestOk \in BOOLEAN, status \in {"provisioning", "ready"} :
         IF ~requestOk
         THEN Exit(1) /\ UNCHANGED <<nbBranch, branchCreated>>
         ELSE IF nbBranch # "absent"
         THEN pc' = "wait_branch" /\ UNCHANGED <<exitStatus, nbBranch, branchCreated>>
         ELSE /\ nbBranch' = status
              /\ branchCreated' = TRUE
              /\ pc' = "wait_branch"
              /\ UNCHANGED exitStatus
    /\ UNCHANGED <<args, elapsed_time, branch_schema_id, data, srcFetchFailed,
                   stores, progress>>

\* get_or_create_branch up to the call of wait_for_branch_ready
get_or_create_branch ==
    /\ pc = "start" /\ branch # "main"
    /\ \E requestOk \in BOOLEAN, status \in {"provisioning", "ready"} :
         IF ~requestOk
         THEN Exit(1) /\ UNCHANGED <<nbBranch, branchCreated>>
         ELSE IF nbBranch # "absent"
         THEN pc' = "wait_branch" /\ UNCHANGED <<exitStatus, nbBranch, branchCreated>>
         ELSE IF ~force
         THEN Exit(1) /\ UNCHANGED <<nbBranch, branchCreated>>
         ELSE /\ nbBranch' = status
              /\ branchCreated' = TRUE
              /\ pc' = "wait_branch"
              /\ UNCHANGED exitStatus
    /\ UNCHANGED <<args, elapsed_time, branch_schema_id, data, srcFetchFailed,
                   stores, progress>>

\* what the poll of line 178 can give: the branch with its status, None (the
\* branch is gone), or a RequestError
PollAnswers == {"provisioning", "ready", "absent", "error"}

\* wait_for_branch_ready that returns once the timeout has passed
wait_for_branch_ready_gives_up ==
    /\ pc = "wait_branch"
    /\ IF nbBranch = "ready" \/ elapsed_time >= Timeout
       THEN /\ pc' = "load_dst"
            /\ branch_schema_id' = "schema_feature"
            /\ elapsed_time' = 0
            /\ UNCHANGED <<exitStatus, nbBranch>>
       ELSE /\ elapsed_time' = elapsed_time + 1
            /\ \E status \in {"provisioning", "ready"} : nbBranch' = status
            /\ UNCHANGED <<pc, exitStatus, branch_schema_id>>
    /\ UNCHANGED <<args, branchCreated, data, srcFetchFailed, stores, progress>>

\* wait_for_branch_ready: one evaluation of the loop condition and, when the
\* branch is not ready, one pass of the loop body; on return run_sync stores
\* branch.schema_id (lines 79-80).  A RequestError of the poll is caught by
\* get_or_create_branch (lines 164-166, sys.exit(1)); after a poll that gave
\* None the loop condition raises AttributeError, which nothing catches.
wait_for_branch_ready ==
    /\ pc = "wait_branch"
    /\ IF nbBranch = "ready"
       THEN /\ pc' = "load_dst"
            /\ branch_schema_id' = "schema_feature"
            /\ elapsed_time' = 0
            /\ UNCHANGED <<exitStatus, nbBranch>>
       ELSE /\ elapsed_time' = elapsed_time + 1
            /\ IF elapsed_time' > Timeout
               THEN Exit(1) /\ UNCHANGED nbBranch
               ELSE \E answer \in PollAnswers :
                      CASE answer = "error"  -> Exit(1) /\ UNCHANGED nbBranch
                        [] answer = "absent" -> Crash /\ nbBranch' = "absent"
                        [] OTHER -> nbBranch' = answer /\ UNCHANGED <<pc, exitStatus>>
            /\ UNCHANGED branch_schema_id
    /\ UNCHANGED <<args, branchCreated, data, srcFetchFailed, stores, progress>>

\* local_netbox.load() (line 101): a failed request or the exception of
\* add_child leaves run_sync
LoadNetBox ==
    /\ pc = "load_dst"
    /\ \E requestOk \in BOOLEAN :
         LET r == NetBoxLoad(nb)
         IN  IF ~requestOk \/ r.raised
             THEN Crash /\ UNCHANGED local_netbox
             ELSE pc' = "load_src" /\ local_netbox' = r.store /\ UNCHANGED exitStatus
    /\ UNCHANGED <<args, nbBranch, branchCreated, elapsed_time, branch_schema_id,
                   data, srcFetchFailed, digital_ocean, progress>>

\* digital_ocean.load() (line 102): load() catches every exception
LoadDigitalOcean ==
    /\ pc = "load_src"
    /\ \E fetchFailed \in BOOLEAN :
         /\ digital_ocean' = DigitalOceanLoad(droplets, ~fetchFailed)
         /\ srcFetchFailed' = fetchFailed
    /\ pc' = IF dry_run THEN "dry_run" ELSE "sync"
    /\ UNCHANGED <<exitStatus, args, nbBranch, branchCreated, elapsed_time,
                   branch_schema_id, data, local_netbox, progress>>

\* lines 104-109: --dry-run
DryRun ==
    /\ pc = "dry_run"
    /\ diff' = diff_from(local_netbox, digital_ocean, FALSE)
    /\ diffComputed' = TRUE
    /\ Exit(0)
    /\ UNCHANGED <<args, nbBranch, branchCreated, elapsed_time, branch_schema_id,
                   data, srcFetchFailed, stores, todo, report, faults>>

\* the outcomes the backend can give a request: an answer, an error (a
\* rejected request, a timeout), or for a lookup by id "notfound" (another
\* client removed the object since load)
Outcomes(op) ==
    {"ok"} \cup (IF faults < MaxFaults
                 THEN IF op = "create" THEN {"error"} ELSE {"error", "notfound"}
                 ELSE {})

Faulty(entry) == IF entry.cause \in {"error", "notfound"} THEN 1 ELSE 0

Replace(store, t, model) == [store EXCEPT ![t][Get(store, t, model.key)] = model]

Remove(store, t, key) == [store EXCEPT ![t] = SelectSeq(@, LAMBDA o : o.key # key)]

Logged(entry, phase) ==
    [op |-> entry.op, type |-> entry.type, key |-> entry.key,
     result |-> entry.result, cause |-> entry.cause, phase |-> phase]

\* line 117: local_netbox.sync_from(digital_ocean, flags=SKIP_UNMATCHED_DST),
\* the diff it computes; perform_sync then walks the elements that have diffs
sync_from ==
    /\ pc = "sync"
    /\ diff' = diff_from(local_netbox, digital_ocean, TRUE)
    /\ diffComputed' = TRUE
    /\ todo' = WithDiffs(diff')
    /\ pc' = "phase1"
    /\ UNCHANGED <<exitStatus, args, nbBranch, branchCreated, elapsed_time,
                   branch_schema_id, data, srcFetchFailed, stores, report, faults>>

\* DiffSyncSyncer.sync_model for one element: the CRUD method of its action
sync_model(e, outcome) ==
    LET t == e.type
        self == local_netbox[t][Get(local_netbox, t, e.key)]
    IN  CASE Action(e) = "create" ->
               create(nb, local_netbox, nextId, t, e.key, PlusAttrs(e), outcome)
          [] Action(e) = "update" ->
               update(nb, local_netbox, t, self, PlusAttrs(e), outcome)
          [] Action(e) = "delete" ->
               delete(nb, t, self, outcome)

\* DiffSyncSyncer.sync_diff_element for the next element of sync_from: the
\* store gets the created model, holds the updated one, loses the deleted one
sync_diff_element ==
    /\ pc = "phase1" /\ todo # <<>>
    /\ LET e == Head(todo)
       IN  \E outcome \in Outcomes(Action(e)) :
             LET r == sync_model(e, outcome)
             IN  /\ nb' = r.backend
                 /\ nextId' = IF r.entry.op = "create" /\ r.returned
                              THEN nextId + 1 ELSE nextId
                 /\ local_netbox' =
                      IF ~r.returned THEN local_netbox
                      ELSE IF r.entry.op = "create" THEN Add(local_netbox, e.type, r.model)
                      ELSE IF r.entry.op = "update" THEN Replace(local_netbox, e.type, r.model)
                      ELSE Remove(local_netbox, e.type, e.key)
                 /\ report' = Append(report, Logged(r.entry, 1))
                 /\ faults' = faults + Faulty(r.entry)
                 /\ IF r.raised
                    THEN Crash /\ UNCHANGED todo
                    ELSE todo' = Tail(todo) /\ UNCHANGED <<pc, exitStatus>>
    /\ UNCHANGED <<args, nbBranch, branchCreated, elapsed_time, branch_schema_id,
                   droplets, srcFetchFailed, digital_ocean, diff, diffComputed>>

\* line 121: the diff is computed again, without flags, once sync_from returned
recalculate_diff ==
    /\ pc = "phase1" /\ todo = <<>>
    /\ diff' = diff_from(local_netbox, digital_ocean, FALSE)
    /\ todo' = Deletions(diff')
    /\ pc' = "phase2"
    /\ UNCHANGED <<exitStatus, args, nbBranch, branchCreated, elapsed_time,
                   branch_schema_id, data, srcFetchFailed, stores, diffComputed,
                   report, faults>>

\* lines 125-136: the next DELETE element of the recomputed diff; the object is
\* looked up in the destination store and its delete() called, the store keeps it
process_deletion ==
    /\ pc = "phase2" /\ todo # <<>>
    /\ LET e == Head(todo)
           obj == local_netbox[e.type][Get(local_netbox, e.type, e.key)]
       IN  \E outcome \in Outcomes("delete") :
             LET r == delete(nb, e.type, obj, outcome)
             IN  /\ nb' = r.backend
                 /\ report' = Append(report, Logged(r.entry, 2))
                 /\ faults' = faults + Faulty(r.entry)
    /\ todo' = Tail(todo)
    /\ UNCHANGED <<pc, exitStatus, args, nbBranch, branchCreated, elapsed_time,
                   branch_schema_id, nextId, droplets, srcFetchFailed, stores,
                   diff, diffComputed>>

\* lines 138-139: "Sync complete", sys.exit(0)
sync_complete ==
    /\ pc = "phase2" /\ todo = <<>>
    /\ Exit(0)
    /\ UNCHANGED <<args, nbBranch, branchCreated, elapsed_time, branch_schema_id,
                   data, srcFetchFailed, stores, progress>>

Next ==
    \/ MainBranch
    \/ get_or_create_branch
    \/ wait_for_branch_ready
    \/ LoadNetBox
    \/ LoadDigitalOcean
    \/ DryRun
    \/ sync_from
    \/ sync_diff_element
    \/ recalculate_diff
    \/ process_deletion
    \/ sync_complete

Spec == Init /\ [][Next]_vars

-----------------------------------------------------------------------------
(* The diff as a function of two loaded graphs *)

Backends ==
    { [t \in AllTypes |->
         CASE t = "site" -> ss
           [] t = "manufacturer" -> ms
           [] t = "device_role" -> rs
           [] OTHER -> <<>>] :
      ss \in SiteChoices, ms \in ManufacturerChoices, rs \in RoleChoices }

\* the graphs either adapter's load() can return
Graphs ==
    { NetBoxLoad(b).store : b \in Backends }
    \cup { DigitalOceanLoad(ds, ok) : ds \in DropletLists, ok \in BOOLEAN }

InitDiff ==
    /\ pc = "diff_input"
    /\ exitStatus = 0
    /\ dry_run = TRUE
    /\ branch = "main"
    /\ force = FALSE
    /\ nbBranch = "absent"
    /\ branchCreated = FALSE
    /\ elapsed_time = 0
    /\ branch_schema_id = "None"
    /\ nb = EmptyStore
    /\ nextId = 3
    /\ droplets = <<>>
    /\ srcFetchFailed = FALSE
    /\ local_netbox \in Graphs
    /\ digital_ocean \in Graphs
    /\ diff = <<>>
    /\ diffComputed = FALSE
    /\ todo = <<>>
    /\ report = <<>>
    /\ faults = 0

\* local_netbox.diff_from(digital_ocean) on the two graphs
compute_diff ==
    /\ pc = "diff_input"
    /\ diff' = diff_from(local_netbox, digital_ocean, FALSE)
    /\ diffComputed' = TRUE
    /\ pc' = "diff_output"
    /\ UNCHANGED <<exitStatus, args, nbBranch, branchCreated, elapsed_time,
                   branch_schema_id, data, srcFetchFailed, stores, todo, report, faults>>

NextDiff == compute_diff

SpecDiff == InitDiff /\ [][NextDiff]_vars

-----------------------------------------------------------------------------
(* The CRUD methods of the NetBox models, called as sync_diff_element calls  *)
(* them, for records of every model class                                    *)

\* the source entities a record can be about: what DigitalOceanAdapter
\* registers for a droplet, and a device type of another manufacturer
CrudRecords ==
    { [type |-> "site", key |-> "New York 1", attrs |-> [slug |-> "nyc1"]],
      [type |-> "manufacturer", key |-> "DigitalOcean",
       attrs |-> [description |-> "Cloud provider", slug |-> "digitalocean"]],
      [type |-> "device_role", key |-> "Droplet", attrs |-> [slug |-> "droplet"]] }
    \cup { [type |-> "device_type", key |-> "s-1vcpu-1gb",
             attrs |-> [manufacturer_name |-> m, slug |-> "s-1vcpu-1gb"]] :
           m \in {"DigitalOcean", "Acme"} }
    \cup { [type |-> "device", key |-> "web1",
             attrs |-> [device_type_name |-> "s-1vcpu-1gb", device_role_name |-> "Droplet",
                        site_name |-> n, status |-> "active"]] :
           n \in {"New York 1", "Amsterdam 3"} }

\* the destination: a NetBox that holds no device type, loaded
CrudBackends == { b \in Backends : Len(b["site"]) <= 1 /\ Len(b["device_role"]) <= 1 }

InitCrud ==
    /\ pc = "phase1"
    /\ exitStatus = 0
    /\ dry_run = FALSE
    /\ branch = "main"
    /\ force = FALSE
    /\ nbBranch = "absent"
    /\ branchCreated = FALSE
    /\ elapsed_time = 0
    /\ branch_schema_id = "None"
    /\ nb \in CrudBackends
    /\ nextId = 3
    /\ droplets = <<>>
    /\ srcFetchFailed = FALSE
    /\ local_netbox = NetBoxLoad(nb).store
    /\ digital_ocean = EmptyStore
    /\ diff = <<>>
    /\ diffComputed = FALSE
    /\ todo = <<>>
    /\ report = <<>>
    /\ faults = 0

\* the diff element of one source entity against the destination graph, handed
\* to sync_diff_element
pick_record ==
    /\ pc = "phase1" /\ todo = <<>> /\ Len(report) < MaxCalls
    /\ \E rec \in CrudRecords :
         LET src == Add(EmptyStore, rec.type, Model(rec.key, rec.attrs, 0))
             es == diff_object_pair(rec.type, rec.key, src, local_netbox, TRUE)
         IN  /\ Action(es[1]) # "none"
             /\ todo' = es
    /\ UNCHANGED <<pc, exitStatus, args, nbBranch, branchCreated, elapsed_time,
                   branch_schema_id, data, srcFetchFailed, stores, diff, diffComputed,
                   report, faults>>

NextCrud ==
    \/ pick_record
    \/ sync_diff_element

SpecCrud == InitCrud /\ [][NextCrud]_vars

-----------------------------------------------------------------------------
(* reset_netbox.py: delete_all_objects *)

\* the backends delete_all_objects can meet: objects of every type, each
\* reference pointing at an object the backend holds
ResetBackends ==
    UNION { UNION { { [t \in AllTypes |->
                         CASE t = "site" -> ss
                           [] t = "manufacturer" -> ms
                           [] t = "device_role" -> rs
                           [] t = "device_type" -> dts
                           [] t = "device" -> ds] :
                      ds \in DeviceChoices(ss, rs, dts) } :
                    dts \in DeviceTypeChoices(ms) } :
            ss \in SiteChoices, ms \in ManufacturerChoices, rs \in RoleChoices }

\* the backend holds an object that refers to this one: NetBox refuses to
\* delete it, and <object>.delete() raises
Referenced(backend, t, o) ==
    \E c \in AllTypes : t \in ParentsOf(c) /\
        \E i \in 1..Len(backend[c]) : backend[c][i].attrs[RefField(t)] = o.id

\* the position a delete_<type>s function starts at, and the one it leaves to
FetchPc(t) ==
    CASE t = "device"       -> "fetch_devices"
      [] t = "site"         -> "fetch_sites"
      [] t = "device_role"  -> "fetch_device_roles"
      [] t = "device_type"  -> "fetch_device_types"
      [] t = "manufacturer" -> "fetch_manufacturers"

LoopPc(t) ==
    CASE t = "device"       -> "loop_devices"
      [] t = "site"         -> "loop_sites"
      [] t = "device_role"  -> "loop_device_roles"
      [] t = "device_type"  -> "loop_device_types"
      [] t = "manufacturer" -> "loop_manufacturers"

InitReset ==
    /\ pc = "fetch_devices"
    /\ exitStatus = 0
    /\ dry_run = FALSE
    /\ branch = "main"
    /\ force = FALSE
    /\ nbBranch = "absent"
    /\ branchCreated = FALSE
    /\ elapsed_time = 0
    /\ branch_schema_id = "None"
    /\ nb \in ResetBackends
    /\ nextId = 3
    /\ droplets = <<>>
    /\ srcFetchFailed = FALSE
    /\ local_netbox = EmptyStore
    /\ digital_ocean = EmptyStore
    /\ diff = <<>>
    /\ diffComputed = FALSE
    /\ todo = <<>>
    /\ report = <<>>
    /\ faults = 0

\* one step of a delete_<type>s function: the fetch of all objects of the
\* type, or the delete of the next one.  Any exception (a failed fetch, a
\* delete the backend refuses or fails) is caught by the function's except
\* clause, which logs it; the function returns and the next one is called.
delete_all(t, nextPc) ==
    \/ /\ pc = FetchPc(t)
       /\ \E fetched \in {TRUE} \cup (IF faults < MaxFaults THEN {FALSE} ELSE {}) :
            IF fetched
            THEN /\ todo' = nb[t]
                 /\ pc' = IF nb[t] = <<>> THEN nextPc ELSE LoopPc(t)
                 /\ UNCHANGED faults
            ELSE /\ pc' = nextPc
                 /\ faults' = faults + 1
                 /\ UNCHANGED todo
       /\ UNCHANGED <<nb, report>>
    \/ /\ pc = LoopPc(t)
       /\ \E outcome \in Outcomes("delete") :
            LET o == Head(todo)
                refused == outcome = "ok" /\ Referenced(nb, t, o)
                cause == IF refused THEN "protected" ELSE outcome
                entry == [op |-> "delete", type |-> t, key |-> o.key,
                          result |-> IF cause = "ok" THEN "APPLIED" ELSE "FAILED",
                          cause |-> cause, phase |-> 0]
            IN  /\ nb' = IF cause \in {"ok", "notfound"}
                          THEN [nb EXCEPT ![t] = RemoveId(@, o.id)] ELSE nb
                /\ report' = Append(report, entry)
                /\ faults' = faults + Faulty(entry)
                /\ IF cause = "ok" /\ Tail(todo) # <<>>
                   THEN todo' = Tail(todo) /\ UNCHANGED pc
                   ELSE todo' = <<>> /\ pc' = nextPc

delete_devices ==
    /\ delete_all("device", "fetch_sites")
    /\ UNCHANGED <<exitStatus, args, nbBranch, branchCreated, elapsed_time,
                   branch_schema_id, nextId, droplets, srcFetchFailed, stores,
                   diff, diffComputed>>

delete_sites ==
    /\ delete_all("site", "fetch_device_roles")
    /\ UNCHANGED <<exitStatus, args, nbBranch, branchCreated, elapsed_time,
                   branch_schema_id, nextId, droplets, srcFetchFailed, stores,
                   diff, diffComputed>>

delete_device_roles ==
    /\ delete_all("device_role", "fetch_device_types")
    /\ UNCHANGED <<exitStatus, args, nbBranch, branchCreated, elapsed_time,
                   branch_schema_id, nextId, droplets, srcFetchFailed, stores,
                   diff, diffComputed>>

delete_device_types ==
    /\ delete_all("device_type", "fetch_manufacturers")
    /\ UNCHANGED <<exitStatus, args, nbBranch, branchCreated, elapsed_time,
                   branch_schema_id, nextId, droplets, srcFetchFailed, stores,
                   diff, diffComputed>>

delete_manufacturers ==
    /\ delete_all("manufacturer", "reset_complete")
    /\ UNCHANGED <<exitStatus, args, nbBranch, branchCreated, elapsed_time,
                   branch_schema_id, nextId, droplets, srcFetchFailed, stores,
                   diff, diffComputed>>

\* delete_all_objects: the five functions in the order of lines 109-113
delete_all_objects ==
    \/ delete_devices
    \/ delete_sites
    \/ delete_device_roles
    \/ delete_device_types
    \/ delete_manufacturers

SpecReset == InitReset /\ [][delete_all_objects]_vars

-----------------------------------------------------------------------------
(* Properties *)

\* the sync ran to its end: "Sync complete", sys.exit(0)
SyncEnded == pc = "exit" /\ ~dry_run /\ diffComputed

Failed(i) == report[i].result = "FAILED"

\* what a graph or the backend holds of a type: keys with declared attributes
SourceView(t) == { <<digital_ocean[t][i].key, digital_ocean[t][i].attrs>> :
                   i \in 1..Len(digital_ocean[t]) }

BackendView(t) == { <<nb[t][i].key, [a \in Attributes(t) |-> nb[t][i].attrs[a]]>> :
                    i \in 1..Len(nb[t]) }

\* C1: after a sync run in which no create, update or delete failed, the source
\* graph and the destination agree for every entity type (the diff between
\* them is empty for manufacturer, device_type, device_role, site and device).
C1_Convergence ==
    (SyncEnded /\ \A i \in 1..Len(report) : ~Failed(i))
        => \A t \in AllTypes : SourceView(t) = BackendView(t)

\* the order in which NetBoxAdapter declares its model classes
DeclaredOrder == <<"manufacturer", "device_type", "device_role", "site", "device">>

Rank(t) == CHOOSE i \in 1..Len(DeclaredOrder) : DeclaredOrder[i] = t

\* C3: phase 2 processes the entity types in reverse declared order: a delete
\* of a type declared later is never applied after a delete of a type declared
\* earlier (dependents before the types they reference).
C3_ReverseDeleteOrder ==
    \A i, j \in 1..Len(report) :
        (i < j /\ report[i].op = "delete" /\ report[j].op = "delete")
            => Rank(report[i].type) >= Rank(report[j].type)

\* C4: once a fetch of load() failed, no diff is computed and no create, update
\* or delete is issued to the destination.
C4_LoadFailureFatal ==
    srcFetchFailed => (~diffComputed /\ report = <<>>)

\* C5: a dry run issues no create, update or delete and materializes no change
\* at the destination, whatever --branch and --force are.
C5_DryRunChangesNothing ==
    dry_run => (report = <<>> /\ ~branchCreated)

\* the (type, key) pairs of the report entries of a phase, in order
Attempted(phase) ==
    LET es == SelectSeq(report, LAMBDA r : r.phase = phase)
    IN  [i \in 1..Len(es) |-> <<es[i].type, es[i].key>>]

Pending == [i \in 1..Len(todo) |-> <<todo[i].type, todo[i].key>>]

Records(d) == [i \in 1..Len(d) |-> <<d[i].type, d[i].key>>]

C7_ExitStatusReflectsOutcome ==
    SyncEnded => (exitStatus # 0 <=> \E i \in 1..Len(report) : Failed(i))

\* C8: a delete whose target is no longer at the backend is reported as
\* applied, a delete the backend rejected as failed.
C8_DeleteNotFoundConverged ==
    \A i \in 1..Len(report) :
        report[i].op = "delete" =>
            /\ report[i].cause = "notfound" => report[i].result = "APPLIED"
            /\ report[i].cause = "error" => report[i].result = "FAILED"

\* the two graphs hold the same keys with the same attributes for every type
SameGraph(g, h) ==
    \A t \in AllTypes :
        { <<g[t][i].key, g[t][i].attrs>> : i \in 1..Len(g[t]) }
            = { <<h[t][i].key, h[t][i].attrs>> : i \in 1..Len(h[t]) }

\* C9: the diff of a graph against itself holds no CREATE, UPDATE or DELETE.
C9_SelfDiffEmpty ==
    (pc = "diff_output" /\ SameGraph(digital_ocean, local_netbox))
        => \A i \in 1..Len(diff) : Action(diff[i]) = "none"

\* a graph with entities of every top-level type was diffed against itself
C9_Witness ==
    /\ pc = "diff_output" /\ SameGraph(digital_ocean, local_netbox)
    /\ \A i \in 1..Len(top_level) : Len(local_netbox[top_level[i]]) >= 1
    /\ Len(diff) >= 4

UniqueKeys(g) ==
    \A t \in AllTypes : \A i, j \in 1..Len(g[t]) : g[t][i].key = g[t][j].key => i = j

\* C11: no graph ever holds two entities with the same (type, key), and a
\* duplicate met during load aborts the run: no diff is computed from a graph
\* from which a duplicate was dropped.
C11_DuplicateKeyFatal ==
    /\ UniqueKeys(local_netbox) /\ UniqueKeys(digital_ocean)
    /\ (~srcFetchFailed /\ DuplicateMet(droplets)) => ~diffComputed

\* the diff was computed from the two graphs as they are now
DiffFresh ==
    /\ diffComputed /\ report = <<>>
    /\ (pc = "exit" /\ dry_run) \/ pc = "phase1"

\* the (type, key, attribute) triples on which source and destination differ
Differences ==
    { d \in UNION { {t} \X Keys(digital_ocean[t]) \X Attributes(t) : t \in AllTypes } :
        /\ Has(local_netbox, d[1], d[2])
        /\ digital_ocean[d[1]][Get(digital_ocean, d[1], d[2])].attrs[d[3]]
             # local_netbox[d[1]][Get(local_netbox, d[1], d[2])].attrs[d[3]] }

SameKeys == \A t \in AllTypes : Keys(digital_ocean[t]) = Keys(local_netbox[t])

\* C12: when source and destination hold the same keys for every type and
\* differ in one attribute of one entity, the diff has exactly one record with
\* a change: an UPDATE of that entity carrying that one field, with its new
\* (source) and old (destination) value, and no unchanged field.
C12_AttributeOnlyChange ==
    (DiffFresh /\ SameKeys /\ Cardinality(Differences) = 1) =>
        LET d == CHOOSE x \in Differences : TRUE
            w == WithDiffs(diff)
        IN  /\ Len(w) = 1
            /\ w[1].type = d[1] /\ w[1].key = d[2]
            /\ Action(w[1]) = "update"
            /\ DOMAIN PlusAttrs(w[1]) = {d[3]}
            /\ DOMAIN MinusAttrs(w[1]) = {d[3]}
            /\ PlusAttrs(w[1])[d[3]]
                 = digital_ocean[d[1]][Get(digital_ocean, d[1], d[2])].attrs[d[3]]
            /\ MinusAttrs(w[1])[d[3]]
                 = local_netbox[d[1]][Get(local_netbox, d[1], d[2])].attrs[d[3]]

\* the graphs differed in one attribute of an entity that declares two
C12_Witness ==
    /\ DiffFresh /\ SameKeys /\ Cardinality(Differences) = 1
    /\ \E d \in Differences : Cardinality(Attributes(d[1])) > 1
    /\ \E i \in 1..Len(diff) : Action(diff[i]) = "none"

\* position in the diff of the CREATE of that entity, 0 when there is none
CreateAt(t, key) ==
    IF \E i \in 1..Len(diff) :
           diff[i].type = t /\ diff[i].key = key /\ Action(diff[i]) = "create"
    THEN CHOOSE i \in 1..Len(diff) :
           diff[i].type = t /\ diff[i].key = key /\ Action(diff[i]) = "create"
    ELSE 0

\* C13: the records of the diff are grouped by entity type in declared
\* dependency order, and for a source holding a manufacturer and a device type
\* that references it and an empty destination the diff holds the CREATE of
\* the manufacturer before the CREATE of the device type.
C13_DiffInDependencyOrder ==
    /\ \A i, j \in 1..Len(diff) : i < j => Rank(diff[i].type) <= Rank(diff[j].type)
    /\ (DiffFresh /\ local_netbox = EmptyStore) =>
          \A i \in 1..Len(digital_ocean["device_type"]) :
             LET dt == digital_ocean["device_type"][i]
             IN  Has(digital_ocean, "manufacturer", dt.attrs["manufacturer_name"]) =>
                   /\ CreateAt("manufacturer", dt.attrs["manufacturer_name"]) # 0
                   /\ CreateAt("device_type", dt.key) # 0
                   /\ CreateAt("manufacturer", dt.attrs["manufacturer_name"])
                        < CreateAt("device_type", dt.key)

\* the destination adapter has been constructed (lines 86-91)
AdapterConstructed == pc \in {"load_dst", "load_src", "dry_run", "sync", "phase1", "phase2"}

\* C14: the value the destination adapter's constructor receives as its branch
\* context equals the value the caller supplied as --branch.
C14_TokenPassedThrough ==
    AdapterConstructed => branch_schema_id = branch

\* every reference of every entity of the graph names an entity of the graph
SelfConsistent(g) ==
    \A t \in AllTypes : \A i \in 1..Len(g[t]) : \A p \in ParentsOf(t) :
        Has(g, p, g[t][i].attrs[RefAttr(p)])

\* C15: the graph of either adapter is self-consistent once load() has
\* returned (and at every later moment of the run): every device names a
\* device type, a device role and a site of the same graph, every device type
\* a manufacturer of the same graph.
C15_LoadedGraphSelfConsistent ==
    SelfConsistent(digital_ocean) /\ SelfConsistent(local_netbox)

\* both loads returned, the source graph with a device and its device type
C15_Witness ==
    /\ pc \in {"dry_run", "sync"}
    /\ Len(digital_ocean["device"]) >= 1 /\ Len(digital_ocean["device_type"]) >= 1
    /\ Len(local_netbox["site"]) >= 1

\* the record about to be processed is of a type that references others, and
\* an entity it references is not in the destination graph
UnresolvedRecord ==
    /\ pc = "phase1" /\ todo # <<>>
    /\ \E p \in ParentsOf(Head(todo).type) :
         ~Has(local_netbox, p, Head(todo).source_attrs[RefAttr(p)])

\* every object the backend holds after the step it held, unchanged, before
NothingWritten == \A t \in AllTypes : \A i \in 1..Len(nb'[t]) :
                     \E j \in 1..Len(nb[t]) : nb[t][j] = nb'[t][i]

\* C16: a CREATE or UPDATE of a device type or device that references an
\* entity absent from the destination graph creates and changes nothing at the
\* backend, is not reported as applied, and leaves the destination graph as
\* it was.
C16_UnresolvedNeverPosted ==
    [][ (UnresolvedRecord /\ report' # report) =>
            /\ NothingWritten
            /\ report'[Len(report')].result = "FAILED"
            /\ local_netbox' = local_netbox
      ]_vars

\* a device was created, and its update to a site that is not in the graph
\* was then refused
C16_Witness ==
    \E i, j \in 1..Len(report) :
        /\ i < j
        /\ report[i].op = "create" /\ report[i].type = "device"
        /\ report[i].result = "APPLIED"
        /\ report[j].op = "update" /\ report[j].type = "device"
        /\ report[j].cause = "unresolved" /\ report[j].result = "FAILED"

\* C17: a create that succeeded leaves in the destination graph the entity
\* with the id the backend gave its object, and the object it posted refers
\* to each referenced entity by the id the graph holds for it; a create that
\* failed leaves no entity of that key in the graph.
C17_CreateMaterializes ==
    [][ (report' # report /\ report'[Len(report')].op = "create") =>
            LET en == report'[Len(report')]
                t == en.type
            IN  IF en.result = "APPLIED"
                THEN /\ Has(local_netbox', t, en.key)
                     /\ LET m == local_netbox'[t][Get(local_netbox', t, en.key)]
                            i == IndexOfId(nb'[t], m.id, 1)
                        IN  /\ m.id # 0
                            /\ i # 0
                            /\ nb'[t][i].key = en.key
                            /\ i > Len(nb[t])
                            /\ \A p \in ParentsOf(t) :
                                 /\ nb'[t][i].attrs[RefField(p)] # 0
                                 /\ nb'[t][i].attrs[RefField(p)]
                                      = IdOf(local_netbox', p, m.attrs[RefAttr(p)])
                ELSE ~Has(local_netbox', t, en.key)
      ]_vars

\* a manufacturer was created, then a device type that refers to it by the id
\* the backend gave the manufacturer
C17_Witness ==
    /\ Len(report) >= 2
    /\ report[1].op = "create" /\ report[1].type = "manufacturer"
    /\ report[1].result = "APPLIED"
    /\ report[2].op = "create" /\ report[2].type = "device_type"
    /\ report[2].result = "APPLIED"
    /\ Len(nb["device_type"]) = 1
    /\ nb["device_type"][1].attrs["manufacturer"] = BackendId(nb["manufacturer"], "DigitalOcean")

\* C18: within one sync run each (type, key) is attempted at most once: a
\* create or update that failed in phase 1 is not attempted again in phase 2,
\* which acts on DELETE records only, and a failed delete is not retried.
C18_AttemptedAtMostOnce ==
    /\ \A i, j \in 1..Len(report) :
         (report[i].type = report[j].type /\ report[i].key = report[j].key) => i = j
    /\ \A i \in 1..Len(report) :
         /\ report[i].phase = 1 => report[i].op \in {"create", "update"}
         /\ report[i].phase = 2 => report[i].op = "delete"

\* a record failed in phase 1, the diff was recomputed while the two graphs
\* still differed on it, and phase 2 ran its deletes to the end
C18_Witness ==
    /\ SyncEnded
    /\ \E i \in 1..Len(report) : report[i].phase = 1 /\ Failed(i)
    /\ \E j \in 1..Len(report) : report[j].phase = 2
    /\ \E k \in 1..Len(diff) : Action(diff[k]) \in {"create", "update"}

\* C19: wait_for_branch_ready returns only when the status of the branch is
\* 'ready', makes no poll when it already is, never makes more than `timeout`
\* polls, and ends the run with exit status 1 when the branch is still not
\* ready once the timeout has passed.
C19_WaitBounded ==
    [][ pc = "wait_branch" =>
            /\ elapsed_time <= Timeout
            /\ pc' = "load_dst" => nbBranch = "ready"
            /\ nbBranch = "ready" =>
                  /\ pc' = "load_dst" /\ nbBranch' = "ready"
                  /\ elapsed_time' # elapsed_time + 1
            /\ (nbBranch # "ready" /\ elapsed_time = Timeout) =>
                  (pc' = "exit" /\ exitStatus' = 1 /\ elapsed_time' > Timeout)
            /\ (pc' = "wait_branch" /\ nbBranch # "ready") =>
                  elapsed_time' = elapsed_time + 1
      ]_vars

\* the branch stayed in another status for the whole timeout
C19_Witness ==
    /\ pc = "exit" /\ exitStatus = 1
    /\ elapsed_time > Timeout /\ nbBranch = "provisioning"

\* C20: a branch is created only when the named branch does not exist and
\* --force was given; when it does not exist and --force was not given the run
\* ends with exit status 1 with nothing loaded, diffed or written, and nothing
\* follows sys.exit; with branch "main" there is no branch lookup or creation
\* and the destination adapter gets no branch to put in its header.
C20_BranchSelection ==
    [][ /\ pc \notin {"exit", "crash"}
        /\ (branchCreated' /\ ~branchCreated) =>
              (pc = "start" /\ branch # "main" /\ nbBranch = "absent" /\ force)
        /\ (pc = "start" /\ branch # "main" /\ nbBranch = "absent" /\ ~force) =>
              /\ pc' = "exit" /\ exitStatus' = 1
              /\ ~branchCreated' /\ nbBranch' = "absent" /\ nb' = nb
              /\ local_netbox' = EmptyStore /\ digital_ocean' = EmptyStore
              /\ ~diffComputed' /\ report' = <<>>
        /\ branch = "main" =>
              /\ pc' # "wait_branch" /\ nbBranch' = nbBranch
              /\ ~branchCreated' /\ branch_schema_id' = "None"
      ]_vars

\* the missing branch was created under --force and the run went on with it
C20_Witness ==
    /\ branchCreated /\ force /\ branch # "main"
    /\ branch_schema_id = "schema_feature" /\ diffComputed

\* C21: delete_all_objects asks the backend to delete a site, device role,
\* device type or manufacturer only when the backend holds no object that
\* references it, also after an earlier deletion step failed.
C21_ResetKeepsReferences ==
    [][ (report' # report /\ pc \in {LoopPc(t) : t \in AllTypes}) =>
            ~Referenced(nb, report'[Len(report')].type, Head(todo))
      ]_vars

\* C22: every delete a sync run issues is for an entity whose (type, key) the
\* loaded source graph does not hold, entities created or updated in phase 1
\* included; the delete is reported as done, and the destination graph loses
\* an entity, only when the backend held the object and removed it on this
\* request.
C22_DeleteOnlyUnmatched ==
    [][ /\ (report' # report /\ report'[Len(report')].op = "delete") =>
              LET en == report'[Len(report')]
                  t == en.type
              IN  /\ ~Has(digital_ocean, t, en.key)
                  /\ Has(local_netbox, t, en.key)
                  /\ en.result = "APPLIED" =>
                        LET id == local_netbox[t][Get(local_netbox, t, en.key)].id
                        IN  /\ IndexOfId(nb[t], id, 1) # 0
                            /\ IndexOfId(nb'[t], id, 1) = 0
                            /\ en.cause = "ok"
        /\ (\E t \in AllTypes : ~(Keys(local_netbox[t]) \subseteq Keys(local_netbox'[t]))) =>
              /\ report' # report
              /\ report'[Len(report')].op = "delete"
              /\ report'[Len(report')].result = "APPLIED"
      ]_vars

\* phase 1 created or updated entities, and phase 2 then deleted one entity at
\* the backend and failed to delete another
C22_Witness ==
    /\ SyncEnded
    /\ \E i \in 1..Len(report) : report[i].phase = 1 /\ ~Failed(i)
    /\ \E j, k \in 1..Len(report) :
         /\ report[j].op = "delete" /\ ~Failed(j)
         /\ report[k].op = "delete" /\ Failed(k)

====
